---------------------------- MODULE Spec2Model ----------------------------
(***************************************************************************)
(* Model of the interview-question extraction app:                         *)
(*   src/pages/drilldown.py  the CSV "drilldown" batch: a bounded thread   *)
(*                           pool fans the rows out, one collector loop    *)
(*                           aggregates the rows as the futures complete;  *)
(*   src/app.py              the zip flow's extraction client and the      *)
(*                           folder-name parser.                           *)
(*                                                                         *)
(* Text is modelled as a sequence of one-character strings, so that strip, *)
(* lower, "in" and split are computed character by character.              *)
(***************************************************************************)
EXTENDS Integers, Sequences, FiniteSets, Bags, TLC

(***************************************************************************)
(* Bounds of the model                                                     *)
(***************************************************************************)
MaxUnits == 3
MaxItems == 2
MaxNameLen == 7
MaxTextLen == 5
MaxCellLen == 4
MaxClock == 3

(***************************************************************************)
(* Program constants                                                       *)
(***************************************************************************)
\* drilldown.py line 43: three key slots, MISTRAL_API_KEY_1..3
NumKeySlots == 3
\* app.py lines 49-53: the zip flow reads five credential slots
NumAppKeySlots == 5
\* mutant: range(2)
TwoAttempts == 1 + 1

\* range(3) in both retry loops
MaxAttempts == 3
\* extract_questions: len(raw_text.strip()) < 5
MinTextLen == 5
\* process_drilldown_row: len(v) > 3
MinCellLen == 3
\* time.sleep(3 ...) after a 429, time.sleep(1) after another failure
RateLimitSleep == 3
ErrorSleep == 1
\* uniform(0, 2): the random extra sleep of analyze_with_mistral
MaxJitter == 2

(***************************************************************************)
(* Text helpers (Python str methods)                                       *)
(***************************************************************************)
\* the whitespace characters of the model's alphabets
IsSpace(c) == c = " "

RECURSIVE lstrip(_)
lstrip(s) ==
    IF s = <<>> THEN <<>>
    ELSE IF IsSpace(Head(s)) THEN lstrip(Tail(s)) ELSE s

RECURSIVE rstrip(_)
rstrip(s) ==
    IF s = <<>> THEN <<>>
    ELSE IF IsSpace(s[Len(s)]) THEN rstrip(SubSeq(s, 1, Len(s) - 1)) ELSE s

\* str.strip()
strip(s) == rstrip(lstrip(s))

\* str.lower(), on the letters of the alphabets
LowerChar(c) == IF c = "N" THEN "n" ELSE c

lower(s) == [i \in 1..Len(s) |-> LowerChar(s[i])]

\* the positions at which sep occurs in s
Occurrences(s, sep) ==
    {i \in 1..(Len(s) - Len(sep) + 1) : SubSeq(s, i, i + Len(sep) - 1) = sep}

\* sep in s
contains(s, sep) == Occurrences(s, sep) # {}

Min(S) == CHOOSE x \in S : \A y \in S : x <= y

Max(S) == CHOOSE x \in S : \A y \in S : x >= y

\* mutant: s.rsplit(sep, 1), the split at the last separator
rsplit1(s, sep) ==
    LET i == Max(Occurrences(s, sep))
    IN  <<SubSeq(s, 1, i - 1), SubSeq(s, i + Len(sep), Len(s))>>

\* s.split(sep, 1) for an s that contains sep
split1(s, sep) ==
    LET i == Min(Occurrences(s, sep))
    IN  <<SubSeq(s, 1, i - 1), SubSeq(s, i + Len(sep), Len(s))>>

\* all sequences over alphabet A of length at most n
SeqsUpTo(A, n) == UNION {[1..k -> A] : k \in 0..n}

(***************************************************************************)
(* app.py: parse_folder_name                                               *)
(***************************************************************************)
Dash == <<" ", "-", " ">>
Underscore == <<"_">>
NA == <<"N", "/", "A">>

parse_folder_name(folder_name) ==
    LET clean_name == strip(folder_name)
    IN  IF contains(clean_name, Dash)
        THEN LET parts == split1(clean_name, Dash)
             IN  <<strip(parts[1]), strip(parts[2])>>
        ELSE IF contains(clean_name, Underscore)
        THEN LET parts == split1(clean_name, Underscore)
             IN  <<strip(parts[1]), strip(parts[2])>>
        ELSE <<clean_name, NA>>

(***************************************************************************)
(* The chat-completion endpoint, as the two clients see it.  One response  *)
(* is either an exception raised by requests.post or an HTTP response; a   *)
(* 200 response carries a body, which is JSON or not, and the JSON body    *)
(* carries the message content: text that parses or not, to an object or   *)
(* not, holding the key the client reads or not, with a list of items.     *)
(***************************************************************************)
\* the statuses that are neither 200 nor 429, by one of them
OtherStatuses == {500}

RaisedException == [kind |-> "exception"]
HttpError(status) == [kind |-> "http", status |-> status]
HttpOk(body) == [kind |-> "http", status |-> 200, body |-> body]

NotJsonBody == [json |-> FALSE]
JsonBody(content) == [json |-> TRUE, content |-> content]

Unparsable == [parses |-> FALSE]
NotADict == [parses |-> TRUE, dict |-> FALSE]
NoKey == [parses |-> TRUE, dict |-> TRUE, has_key |-> FALSE]
WithItems(items) ==
    [parses |-> TRUE, dict |-> TRUE, has_key |-> TRUE, items |-> items]

\* the item lists the hosted model may answer with: item j of a unit
ItemLists == {[j \in 1..n |-> j] : n \in 0..MaxItems}

Contents == {Unparsable, NotADict, NoKey} \cup {WithItems(l) : l \in ItemLists}

Responses ==
    {RaisedException, HttpError(429), HttpOk(NotJsonBody)}
        \cup {HttpError(st) : st \in OtherStatuses}
        \cup {HttpOk(JsonBody(c)) : c \in Contents}

\* what the endpoint answers to the first, second and third request of a call
Scripts == [1..MaxAttempts -> Responses]

Request(resp) == [ev |-> "request", resp |-> resp]
Sleep(secs, jitter) == [ev |-> "sleep", secs |-> secs, jitter |-> jitter]

\* the value of .get(key, []) on the parsed content; Raises marks an exception
Raises == [raises |-> TRUE]
Returns(v) == [raises |-> FALSE, value |-> v]

\* json.loads(content).get(key, [])
loads_get(content) ==
    IF ~content.parses THEN Raises
    ELSE IF ~content.dict THEN Raises
    ELSE IF ~content.has_key THEN Returns(<<>>)
    ELSE Returns(content.items)

(***************************************************************************)
(* drilldown.py: analyze_with_mistral                                      *)
(***************************************************************************)
\* json.dumps({"extracted_data": []})
EmptyExtracted == WithItems(<<>>)

\* mutant: only a 429 is retried, any other failure returns at once
RECURSIVE analyze_attempts_fail_fast(_, _, _)
analyze_attempts_fail_fast(script, attempt, trace) ==
    IF attempt >= MaxAttempts
    THEN [content |-> EmptyExtracted, trace |-> trace]
    ELSE LET resp == script[attempt + 1]
             sent == Append(trace, Request(resp))
         IN  IF resp.kind = "exception"
             THEN [content |-> EmptyExtracted, trace |-> sent]
             ELSE IF resp.status = 200
             THEN IF resp.body.json
                  THEN [content |-> resp.body.content, trace |-> sent]
                  ELSE [content |-> EmptyExtracted, trace |-> sent]
             ELSE IF resp.status = 429
             THEN analyze_attempts_fail_fast(script, attempt + 1,
                      Append(sent, Sleep(RateLimitSleep, MaxJitter)))
             ELSE [content |-> EmptyExtracted, trace |-> sent]

RECURSIVE analyze_attempts(_, _, _)
analyze_attempts(script, attempt, trace) ==
    IF attempt >= MaxAttempts
    THEN [content |-> EmptyExtracted, trace |-> trace]
    ELSE LET resp == script[attempt + 1]
             sent == Append(trace, Request(resp))
         IN  IF resp.kind = "exception"
             THEN analyze_attempts(script, attempt + 1,
                                   Append(sent, Sleep(ErrorSleep, 0)))
             ELSE IF resp.status = 200
             THEN IF resp.body.json
                  THEN [content |-> resp.body.content, trace |-> sent]
                  ELSE analyze_attempts(script, attempt + 1,
                                        Append(sent, Sleep(ErrorSleep, 0)))
             ELSE IF resp.status = 429
             THEN analyze_attempts(script, attempt + 1,
                                   Append(sent, Sleep(RateLimitSleep, MaxJitter)))
             ELSE analyze_attempts(script, attempt + 1,
                                   Append(sent, Sleep(ErrorSleep, 0)))

\* api_key 0 stands for the empty key
analyze_with_mistral(api_key, script) ==
    IF api_key = 0
    THEN [content |-> EmptyExtracted, trace |-> <<>>]
    ELSE analyze_attempts(script, 0, <<>>)

(***************************************************************************)
(* app.py: MistralClientAssessment.extract_questions                       *)
(***************************************************************************)
RECURSIVE extract_attempts(_, _, _)
extract_attempts(script, attempt, trace) ==
    IF attempt >= MaxAttempts
    THEN [questions |-> <<>>, trace |-> trace]
    ELSE LET resp == script[attempt + 1]
             sent == Append(trace, Request(resp))
         IN  IF resp.kind = "exception"
             THEN extract_attempts(script, attempt + 1,
                                   Append(sent, Sleep(ErrorSleep, 0)))
             ELSE IF resp.status = 200
             THEN IF resp.body.json /\ ~loads_get(resp.body.content).raises
                  THEN [questions |-> loads_get(resp.body.content).value,
                        trace |-> sent]
                  ELSE [questions |-> <<>>, trace |-> sent]
             ELSE IF resp.status = 429
             THEN extract_attempts(script, attempt + 1,
                                   Append(sent, Sleep(RateLimitSleep, 0)))
             ELSE [questions |-> <<>>, trace |-> sent]

extract_questions(raw_text, script) ==
    IF raw_text = <<>> \/ Len(strip(raw_text)) < MinTextLen
    THEN [questions |-> <<>>, trace |-> <<>>]
    ELSE extract_attempts(script, 0, <<>>)

(***************************************************************************)
(* drilldown.py: process_drilldown_row                                     *)
(***************************************************************************)
\* the recognized CSV columns, in the order the code reads them
ColumnNames ==
    <<"Assessment questions", "Technical round Questions",
      "Technical2 round Questions", "H.R Questions",
      "Managerial Round questions", "CEO/Founder/Director Round Questions">>

Columns == {ColumnNames[i] : i \in 1..Len(ColumnNames)}

\* a cell of a column the CSV does not have: row_data.get(...) is None
Missing == <<"None">>

\* the answers the cleanup drops whatever their length
Ignored ==
    {<<"n", "a", "n">>, <<"n", "o">>, <<"y", "e", "s">>, <<"n", "a">>,
     <<"n", "o", "n", "e">>, <<"n", "u", "l", "l">>}

\* the columns kept in rounds_data: pd.notna(row_data.get(column))
rounds_data(row_data) == {c \in Columns : row_data.cells[c] # Missing}

clean_rounds(row_data) ==
    {c \in rounds_data(row_data) :
        /\ Len(row_data.cells[c]) > MinCellLen
        /\ lower(row_data.cells[c]) \notin Ignored}

\* one output row per item: the row's metadata and the item
processed_rows(row_data, items) ==
    [j \in 1..Len(items) |-> [meta |-> row_data.meta, item |-> items[j]]]

\* mutant: no try/except around the parsing, its exception leaves the call
process_drilldown_row_unguarded(row_data, api_key, script) ==
    IF clean_rounds(row_data) = {}
    THEN [rows |-> <<>>, trace |-> <<>>, raised |-> FALSE]
    ELSE LET response == analyze_with_mistral(api_key, script)
             got == loads_get(response.content)
         IN  IF got.raises
             THEN [rows |-> <<>>, trace |-> response.trace, raised |-> TRUE]
             ELSE [rows |-> processed_rows(row_data, got.value),
                   trace |-> response.trace, raised |-> FALSE]

\* rows: the list returned; raised: an exception left the call instead
process_drilldown_row(row_data, api_key, script) ==
    IF clean_rounds(row_data) = {}
    THEN [rows |-> <<>>, trace |-> <<>>, raised |-> FALSE]
    ELSE LET response == analyze_with_mistral(api_key, script)
             got == loads_get(response.content)
         IN  IF got.raises
             THEN [rows |-> <<>>, trace |-> response.trace, raised |-> FALSE]
             ELSE [rows |-> processed_rows(row_data, got.value),
                   trace |-> response.trace, raised |-> FALSE]

(***************************************************************************)
(* State                                                                   *)
(***************************************************************************)
VARIABLES
    MISTRAL_API_KEYS,   \* the keys found in the secrets: key ids 1..K
    rows_to_process,    \* the CSV's rows, one unit each
    hangs,              \* the units whose HTTP request never returns
    pc,                 \* the script: "idle", "submit", "collect", "done",
                        \*   or "crashed" by an uncaught exception
    futures,            \* the futures submitted so far, in submission order
    api_key_of,         \* the key passed to executor.submit with each unit
    fstate,             \* each unit's future: "new", "pending", "running", "finished"
    fresult,            \* each finished future's result: its rows or the
                        \*   exception raised, and whether the extraction failed
    yielded,            \* the futures as_completed has handed to the loop
    all_results,        \* the aggregate table
    completed_count,    \* the collector's counter
    progress,           \* the fractions handed to progress_bar.progress
    exported,           \* the rows of the final CSV
    call,               \* a single call of one of the pure functions
    ret                 \* and what it returned

vars ==
    <<MISTRAL_API_KEYS, rows_to_process, hangs, pc, futures, api_key_of,
      fstate, fresult, yielded, all_results, completed_count, progress,
      exported, call, ret>>

batch_vars ==
    <<MISTRAL_API_KEYS, rows_to_process, hangs, pc, futures, api_key_of,
      fstate, fresult, yielded, all_results, completed_count, progress,
      exported>>

total == Len(rows_to_process)
Units == 1..total

\* mutant: one worker per key
workers_one_per_key == Len(MISTRAL_API_KEYS)

\* drilldown.py line 184
workers == Len(MISTRAL_API_KEYS) + 1

Running == {u \in Units : fstate[u] = "running"}
Pending == {u \in Units : fstate[u] = "pending"}
Finished == {u \in Units : fstate[u] = "finished"}

(***************************************************************************)
(* Inputs of the batch                                                     *)
(***************************************************************************)
Question == <<"w", "h", "a", "t", "?">>

BlankRow == [meta |-> "candidate", cells |-> [c \in Columns |-> <<>>]]
TextRow ==
    [meta |-> "candidate",
     cells |-> [c \in Columns |->
                   IF c = "Technical round Questions" THEN Question ELSE <<>>]]

SampleRows == {BlankRow, TextRow}

\* the content is an object holding the key the client reads
HasItems(content) == content.parses /\ content.dict /\ content.has_key

\* a unit's extraction failed: the call asked the endpoint and ended on a
\* failed attempt, or on content that is no object holding the key
Failed(result) ==
    /\ result.trace # <<>>
    /\ LET last == result.trace[Len(result.trace)]
       IN  \/ last.ev = "sleep"
           \/ ~HasItems(last.resp.body.content)

\* what a future can hold for a row: the rows returned, and the ghost flag
Outcome(result) ==
    [rows |-> result.rows, failed |-> Failed(result), raised |-> result.raised]

OutcomeTable ==
    [r \in SampleRows |->
        [k \in 1..NumKeySlots |->
            {Outcome(process_drilldown_row(r, k, s)) : s \in Scripts}]]

NoResult == [rows |-> <<>>, failed |-> FALSE, raised |-> FALSE]
NoCall == [fn |-> "none"]

Init ==
    /\ \E K \in 1..NumKeySlots : MISTRAL_API_KEYS = [i \in 1..K |-> i]
    /\ \E n \in 0..MaxUnits : rows_to_process \in [1..n -> SampleRows]
    /\ hangs \in SUBSET {u \in Units : clean_rounds(rows_to_process[u]) # {}}
    /\ pc = "submit"
    /\ futures = <<>>
    /\ api_key_of = [u \in Units |-> 0]
    /\ fstate = [u \in Units |-> "new"]
    /\ fresult = [u \in Units |-> NoResult]
    /\ yielded = {}
    /\ all_results = <<>>
    /\ completed_count = 0
    /\ progress = <<>>
    /\ exported = <<>>
    /\ call = NoCall
    /\ ret = NoCall

\* a dispatcher that hands every unit the first credential
key_at_first(api_keys, i) == api_keys[1]

\* drilldown.py line 189: MISTRAL_API_KEYS[i % len(MISTRAL_API_KEYS)], the
\* credential of the unit at submission index i (counted from 0)
key_at(api_keys, i) == api_keys[(i % Len(api_keys)) + 1]

\* drilldown.py lines 188-190: the credentials the submission loop hands to
\* n units, in submission order
submitted_keys(api_keys, n) == [u \in 1..n |-> key_at(api_keys, u - 1)]

\* app.py lines 68-70: MistralClientAssessment.get_api_key, with now the value
\* of int(time.time()); 0 is the empty credential ""
get_api_key(api_keys, now) ==
    IF api_keys = <<>> THEN 0 ELSE api_keys[(now % Len(api_keys)) + 1]

\* app.py lines 259-296: the credentials the zip flow picks for successive
\* units, clock[u] being the second at which unit u asks for its credential
zip_keys(api_keys, clock) ==
    [u \in 1..Len(clock) |-> get_api_key(api_keys, clock[u])]

(***************************************************************************)
(* drilldown.py lines 186-214: the batch                                   *)
(***************************************************************************)
\* lines 188-190: one iteration of the submission loop
Submit ==
    /\ pc = "submit"
    /\ Len(futures) < total
    /\ LET u == Len(futures) + 1
           i == u - 1
           key == key_at(MISTRAL_API_KEYS, i)
       IN  /\ futures' = Append(futures, u)
           /\ api_key_of' = [api_key_of EXCEPT ![u] = key]
           /\ fstate' = [fstate EXCEPT ![u] = "pending"]
    /\ UNCHANGED <<MISTRAL_API_KEYS, rows_to_process, hangs, pc, fresult,
                   yielded, all_results, completed_count, progress, exported,
                   call, ret>>

\* line 192: the submission loop is over, the collector starts
StartCollecting ==
    /\ pc = "submit"
    /\ Len(futures) = total
    /\ pc' = "collect"
    /\ completed_count' = 0
    /\ UNCHANGED <<MISTRAL_API_KEYS, rows_to_process, hangs, futures,
                   api_key_of, fstate, fresult, yielded, all_results,
                   progress, exported, call, ret>>

\* mutant: a thread per work item, whatever max_workers says
CanStart_unbounded(u) ==
    /\ u \in Units
    /\ fstate[u] = "pending"
    /\ \A v \in Pending : u <= v

\* a free worker thread takes the oldest work item off the pool's queue
CanStart(u) ==
    /\ u \in Units
    /\ fstate[u] = "pending"
    /\ \A v \in Pending : u <= v
    /\ Cardinality(Running) < workers

Start(u) ==
    /\ CanStart(u)
    /\ fstate' = [fstate EXCEPT ![u] = "running"]
    /\ UNCHANGED <<MISTRAL_API_KEYS, rows_to_process, hangs, pc, futures,
                   api_key_of, fresult, yielded, all_results,
                   completed_count, progress, exported, call, ret>>

\* process_drilldown_row returns in the worker: the future is finished
Finish(u) ==
    /\ u \in Units
    /\ fstate[u] = "running"
    /\ u \notin hangs
    /\ \E o \in OutcomeTable[rows_to_process[u]][api_key_of[u]] :
           fresult' = [fresult EXCEPT ![u] = o]
    /\ fstate' = [fstate EXCEPT ![u] = "finished"]
    /\ UNCHANGED <<MISTRAL_API_KEYS, rows_to_process, hangs, pc, futures,
                   api_key_of, yielded, all_results, completed_count,
                   progress, exported, call, ret>>

\* mutant: the loop body assigns data instead of extending with it
extend_overwrite(results, data) == IF data # <<>> THEN data ELSE results

\* a collector that puts the rows of a unit among those of the units before it
extend_interleaved(results, data) ==
    IF results = <<>> THEN data
    ELSE <<Head(results)>> \o data \o Tail(results)

\* all_results after the loop body has seen data
extend(results, data) == IF data # <<>> THEN results \o data ELSE results

\* mutant: the counter advances by the rows collected, not by one
Collect_counting_rows(u) ==
    /\ pc = "collect"
    /\ u \in Units
    /\ fstate[u] = "finished"
    /\ u \notin yielded
    /\ all_results' = extend(all_results, fresult[u].rows)
    /\ completed_count' = completed_count + Len(fresult[u].rows)
    /\ progress' =
           Append(progress, <<completed_count + Len(fresult[u].rows), total>>)
    /\ yielded' = yielded \cup {u}
    /\ UNCHANGED <<MISTRAL_API_KEYS, rows_to_process, hangs, pc, futures,
                   api_key_of, fstate, fresult, exported, call, ret>>

\* lines 193-204: as_completed yields a finished future, the loop body runs;
\* future.result() raises again what the worker's call raised
Collect(u) ==
    /\ pc = "collect"
    /\ u \in Units
    /\ fstate[u] = "finished"
    /\ u \notin yielded
    /\ IF fresult[u].raised
       THEN /\ pc' = "crashed"
            /\ UNCHANGED <<all_results, completed_count, progress, yielded>>
       ELSE /\ LET data == fresult[u].rows
               IN  all_results' = extend(all_results, data)
            /\ completed_count' = completed_count + 1
            /\ progress' = Append(progress, <<completed_count + 1, total>>)
            /\ yielded' = yielded \cup {u}
            /\ pc' = pc
    /\ UNCHANGED <<MISTRAL_API_KEYS, rows_to_process, hangs, futures,
                   api_key_of, fstate, fresult, exported, call, ret>>

\* mutant: the loop stops at the first future that completes
LoopOver_first_completed == yielded # {} \/ futures = <<>>

\* as_completed is exhausted once it has yielded every future given to it
LoopOver == yielded = {futures[i] : i \in 1..Len(futures)}

\* lines 206-214: the with block exits, "Extraction Complete", the export
Complete ==
    /\ pc = "collect"
    /\ LoopOver
    /\ pc' = "done"
    /\ exported' = all_results
    /\ UNCHANGED <<MISTRAL_API_KEYS, rows_to_process, hangs, futures,
                   api_key_of, fstate, fresult, yielded, all_results,
                   completed_count, progress, call, ret>>

Next ==
    \/ Submit
    \/ StartCollecting
    \/ \E u \in Units : Start(u)
    \/ \E u \in Units : Finish(u)
    \/ \E u \in Units : Collect(u)
    \/ Complete

Spec == Init /\ [][Next]_vars

\* The script's thread and the pool's threads keep running, and a request
\* that is not hung returns (requests.post is given a timeout).
Fairness ==
    /\ WF_vars(Submit)
    /\ WF_vars(StartCollecting)
    /\ WF_vars(Complete)
    /\ \A u \in 1..MaxUnits :
           WF_vars(Start(u)) /\ WF_vars(Finish(u)) /\ WF_vars(Collect(u))

FairSpec == Spec /\ Fairness

(***************************************************************************)
(* The pure functions on their own: one call, its arguments drawn from     *)
(* bounded sets, and the value it returns.                                 *)
(***************************************************************************)
NameAlphabet == {" ", "-", "_", "a"}
TextAlphabet == {" ", "a"}
CellAlphabet == {" ", "N", "o", "e"}

CellTexts == SeqsUpTo(CellAlphabet, MaxCellLen) \cup {Missing}

\* rows with one cell drawn freely, the other cells all empty or all missing
RowInputs ==
    {[meta |-> "candidate",
      cells |-> [c \in Columns |-> IF c = col THEN text ELSE fill]] :
        col \in Columns, text \in CellTexts, fill \in {<<>>, Missing}}

\* the endpoint answering every request of a call alike
ConstantScripts == {[i \in 1..MaxAttempts |-> r] : r \in Responses}

\* the seconds at which successive units of the zip flow ask for a credential:
\* the clock never runs backwards
Clocks ==
    {c \in UNION {[1..n -> 0..MaxClock] : n \in 0..MaxUnits} :
        \A u \in 1..(Len(c) - 1) : c[u] <= c[u + 1]}

\* the call drawn: one function and its arguments
IsCall(c) ==
    \/ \E k \in 0..MaxNameLen : \E n \in [1..k -> NameAlphabet] :
           c = [fn |-> "parse_folder_name", folder_name |-> n]
    \/ \E k \in 0..MaxTextLen : \E t \in [1..k -> TextAlphabet] :
       \E s \in Scripts :
           c = [fn |-> "extract_questions", raw_text |-> t, script |-> s]
    \/ \E k \in 0..1 : \E s \in Scripts :
           c = [fn |-> "analyze_with_mistral", api_key |-> k, script |-> s]
    \/ \E r \in RowInputs : \E s \in ConstantScripts :
           c = [fn |-> "process_drilldown_row", row_data |-> r,
                api_key |-> 1, script |-> s]
    \/ \E K \in 1..NumKeySlots : \E n \in 0..(MaxUnits + NumKeySlots) :
           c = [fn |-> "submit", api_keys |-> [i \in 1..K |-> i], n |-> n]
    \/ \E K \in 0..NumAppKeySlots : \E clock \in Clocks :
           c = [fn |-> "get_api_key", api_keys |-> [i \in 1..K |-> i],
                clock |-> clock]

FnInit ==
    /\ MISTRAL_API_KEYS = <<1>>
    /\ rows_to_process = <<>>
    /\ hangs = {}
    /\ pc = "idle"
    /\ futures = <<>>
    /\ api_key_of = <<>>
    /\ fstate = <<>>
    /\ fresult = <<>>
    /\ yielded = {}
    /\ all_results = <<>>
    /\ completed_count = 0
    /\ progress = <<>>
    /\ exported = <<>>
    /\ IsCall(call)
    /\ ret = NoCall

Returned(value) == [fn |-> call.fn, value |-> value]

CallParseFolderName ==
    /\ call.fn = "parse_folder_name"
    /\ ret = NoCall
    /\ ret' = Returned(parse_folder_name(call.folder_name))
    /\ UNCHANGED <<batch_vars, call>>

CallExtractQuestions ==
    /\ call.fn = "extract_questions"
    /\ ret = NoCall
    /\ ret' = Returned(extract_questions(call.raw_text, call.script))
    /\ UNCHANGED <<batch_vars, call>>

CallAnalyzeWithMistral ==
    /\ call.fn = "analyze_with_mistral"
    /\ ret = NoCall
    /\ ret' = Returned(analyze_with_mistral(call.api_key, call.script))
    /\ UNCHANGED <<batch_vars, call>>

CallProcessDrilldownRow ==
    /\ call.fn = "process_drilldown_row"
    /\ ret = NoCall
    /\ ret' = Returned(process_drilldown_row(call.row_data, call.api_key,
                                             call.script))
    /\ UNCHANGED <<batch_vars, call>>

CallSubmit ==
    /\ call.fn = "submit"
    /\ ret = NoCall
    /\ ret' = Returned(submitted_keys(call.api_keys, call.n))
    /\ UNCHANGED <<batch_vars, call>>

CallGetApiKey ==
    /\ call.fn = "get_api_key"
    /\ ret = NoCall
    /\ ret' = Returned(zip_keys(call.api_keys, call.clock))
    /\ UNCHANGED <<batch_vars, call>>

FnNext ==
    \/ CallParseFolderName
    \/ CallExtractQuestions
    \/ CallAnalyzeWithMistral
    \/ CallProcessDrilldownRow
    \/ CallSubmit
    \/ CallGetApiKey

FnSpec == FnInit /\ [][FnNext]_vars

(***************************************************************************)
(* Properties of the drilldown batch                                       *)
(***************************************************************************)
\* the bag of the elements of a sequence
BagOfSeq(s) ==
    [x \in {s[i] : i \in 1..Len(s)} |-> Cardinality({i \in 1..Len(s) : s[i] = x})]

\* the bag union of the rows the futures of units 1..n hold
RECURSIVE RowsReturned(_)
RowsReturned(n) ==
    IF n = 0 THEN EmptyBag
    ELSE RowsReturned(n - 1) (+) BagOfSeq(fresult[n].rows)

\* the rows of units 1..n concatenated in submission order
RECURSIVE InSubmissionOrder(_)
InSubmissionOrder(n) ==
    IF n = 0 THEN <<>> ELSE InSubmissionOrder(n - 1) \o fresult[n].rows

\* C1: when the run is over, all_results holds exactly the rows returned by
\* process_drilldown_row for the units, as a multiset: none lost, none
\* duplicated, none overwritten, whatever the order of completion.
C1_AggregateIsUnion ==
    pc = "done" => BagOfSeq(all_results) = RowsReturned(total)

\* C1 witness: a finished run of at least two units with rows, aggregated in
\* an order that is not the submission order.
C1_Witness ==
    /\ pc = "done"
    /\ Cardinality({u \in Units : fresult[u].rows # <<>>}) >= 2
    /\ all_results # InSubmissionOrder(total)

\* C2: a unit whose extraction failed holds an empty row list and not an
\* exception; the batch is never aborted and ends with every unit executed
\* and collected, the rows of the other units all in the aggregate.
C2_FailedUnitAddsNothing ==
    /\ \A u \in Finished :
          /\ ~fresult[u].raised
          /\ fresult[u].failed => fresult[u].rows = <<>>
    /\ pc # "crashed"
    /\ pc = "done" =>
          /\ \A u \in Units : fstate[u] = "finished" /\ u \in yielded
          /\ \A u \in Units : \A j \in 1..Len(fresult[u].rows) :
                \E i \in 1..Len(all_results) : all_results[i] = fresult[u].rows[j]
          /\ Len(all_results) = Len(InSubmissionOrder(total))

\* C2 witness: a finished run in which one unit failed and another unit's
\* rows were aggregated.
C2_Witness ==
    /\ pc = "done"
    /\ \E u \in Units : fresult[u].failed
    /\ \E v \in Units : fresult[v].rows # <<>>
    /\ all_results # <<>>

\* C3: the completed state is reached only when every unit's future is
\* finished and collected, and it is reached when no unit's request hangs.
C3_CompleteOnlyAfterAll ==
    /\ [](pc = "done" =>
            /\ Len(futures) = total
            /\ \A u \in Units : fstate[u] = "finished" /\ u \in yielded
            /\ completed_count = total
            /\ exported = all_results)
    /\ <>(hangs # {} \/ pc = "done")

\* C3 witness: a completed run of several units.
C3_Witness == pc = "done" /\ total >= 2 /\ hangs = {}

\* C4: completed_count starts at 0, advances by exactly one with each unit
\* collected and not otherwise, never exceeds the total, equals the total at
\* the end; the fractions reported to the progress bar only advance.
C4_ProgressMonotonic ==
    /\ completed_count = 0
    /\ [][\/ /\ completed_count' = completed_count + 1
             /\ \E u \in Units : u \notin yielded /\ yielded' = yielded \cup {u}
          \/ /\ completed_count' = completed_count
             /\ yielded' = yielded]_vars
    /\ [](/\ completed_count <= total
          /\ completed_count = Cardinality(yielded)
          /\ \A i \in 1..Len(progress) : progress[i] = <<i, total>>
          /\ Len(progress) = completed_count
          /\ pc = "done" => completed_count = total)

\* C4 witness: two units collected out of submission order, a third not yet.
C4_Witness ==
    /\ completed_count = 2
    /\ total > 2
    /\ 1 \notin yielded

\* C8 (as amended): at most W units are in flight, where W = K + 1 is the
\* pool's max_workers for K keys.
C8_BoundedParallelism ==
    /\ workers = Len(MISTRAL_API_KEYS) + 1
    /\ Cardinality(Running) <= workers

\* C8 (as claimed): W is a multiple of K, and at most W units are in flight.
C8_WorkersMultipleOfKeys ==
    /\ workers % Len(MISTRAL_API_KEYS) = 0
    /\ Cardinality(Running) <= workers

\* C8 witness: every worker is busy and a submitted unit waits.
C8_Witness == Cardinality(Running) = workers /\ Pending # {}

\* C9: when exactly one unit's request never returns, every other unit is
\* eventually executed, collected into all_results and counted.
C9_OthersComplete ==
    <>(\/ Cardinality(hangs) # 1
       \/ /\ \A u \in Units \ hangs : fstate[u] = "finished" /\ u \in yielded
          /\ completed_count = total - 1
          /\ Len(all_results) = Len(InSubmissionOrder(total)))

\* C9 witness: the first unit hangs in a worker while all the others, more
\* than the remaining workers can take at once, have been collected.
C9_Witness ==
    /\ hangs = {1}
    /\ fstate[1] = "running"
    /\ total > workers
    /\ yielded = Units \ {1}
    /\ all_results # <<>>

(***************************************************************************)
(* Properties of the extraction clients and of the parsers                 *)
(***************************************************************************)
ClientReturned == ret.fn \in {"analyze_with_mistral", "extract_questions"}

\* the client returned its empty result
EmptyResult ==
    IF ret.fn = "analyze_with_mistral"
    THEN ret.value.content = EmptyExtracted
    ELSE ret.value.questions = <<>>

RequestsIn(T) == {i \in 1..Len(T) : T[i].ev = "request"}

\* T[i] is the n-th request of the call
RequestNo(T, i) == Cardinality({j \in RequestsIn(T) : j <= i})

Got429(e) == e.resp.kind = "http" /\ e.resp.status = 429
GotOtherStatus(e) == e.resp.kind = "http" /\ e.resp.status \notin {200, 429}
GotException(e) == e.resp.kind = "exception"

SleepFollows(T, i) == i + 1 <= Len(T) /\ T[i + 1].ev = "sleep"
RequestFollows(T, i) == i + 2 <= Len(T) /\ T[i + 2].ev = "request"

\* after request i and its sleep the call is over, with the empty result
GivesUpAfter(T, i) == Len(T) = i + 1 /\ EmptyResult

\* C5 (as amended): a call makes at most 3 requests; a 429 answer to the
\* first or second request is followed by a sleep and another request; a 429
\* answer to the third request is followed by a sleep and the empty result:
\* the unit is retried at most twice.
C5_ThreeAttemptsOn429 ==
    ClientReturned =>
        LET T == ret.value.trace
        IN  /\ Cardinality(RequestsIn(T)) <= 3
            /\ \A i \in RequestsIn(T) :
                  Got429(T[i]) =>
                      /\ SleepFollows(T, i)
                      /\ IF RequestNo(T, i) < 3
                         THEN RequestFollows(T, i)
                         ELSE GivesUpAfter(T, i)

\* C5 (as claimed): a 429 answer is followed by a sleep and another request
\* as long as the unit has been retried fewer than 3 times.
C5_ThreeRetriesOn429 ==
    ClientReturned =>
        LET T == ret.value.trace
        IN  \A i \in RequestsIn(T) :
                Got429(T[i]) =>
                    /\ SleepFollows(T, i)
                    /\ IF RequestNo(T, i) - 1 < 3
                       THEN RequestFollows(T, i)
                       ELSE GivesUpAfter(T, i)

\* C5 witness: a call whose three requests were all answered 429.
C5_Witness ==
    /\ ClientReturned
    /\ Cardinality(RequestsIn(ret.value.trace)) = 3
    /\ \A i \in RequestsIn(ret.value.trace) : Got429(ret.value.trace[i])
    /\ EmptyResult

\* C6 (as amended): in extract_questions a status that is neither 200 nor
\* 429 ends the call at once with the empty result; an exception in
\* extract_questions, and such a status or an exception in
\* analyze_with_mistral, is followed by a sleep and, on the first and second
\* attempt, by another request, on the third by the empty result.
C6_OtherFailures ==
    ClientReturned =>
        LET T == ret.value.trace
        IN  \A i \in RequestsIn(T) :
              /\ (ret.fn = "extract_questions" /\ GotOtherStatus(T[i])) =>
                    (Len(T) = i /\ EmptyResult)
              /\ (\/ ret.fn = "extract_questions" /\ GotException(T[i])
                  \/ /\ ret.fn = "analyze_with_mistral"
                     /\ GotOtherStatus(T[i]) \/ GotException(T[i])) =>
                    /\ SleepFollows(T, i)
                    /\ T[i + 1] = Sleep(ErrorSleep, 0)
                    /\ IF RequestNo(T, i) < 3
                       THEN RequestFollows(T, i)
                       ELSE GivesUpAfter(T, i)

\* C6 (as claimed): a status that is neither 200 nor 429, or an exception,
\* ends the call at once with the empty result: no sleep, no other request.
C6_FailFast ==
    ClientReturned =>
        LET T == ret.value.trace
        IN  \A i \in RequestsIn(T) :
                (GotOtherStatus(T[i]) \/ GotException(T[i])) =>
                    (Len(T) = i /\ EmptyResult)

\* C6 witness: a call of analyze_with_mistral that met such a status and an
\* exception and went on to its third request.
C6_Witness ==
    /\ ret.fn = "analyze_with_mistral"
    /\ Cardinality(RequestsIn(ret.value.trace)) = 3
    /\ GotOtherStatus(ret.value.trace[1])
    /\ \E i \in RequestsIn(ret.value.trace) : GotException(ret.value.trace[i])

\* every recognized cell of the row is missing, empty or only whitespace
BlankCells(row_data) ==
    \A c \in Columns :
        row_data.cells[c] = Missing \/ strip(row_data.cells[c]) = <<>>

\* C7 (as claimed): text that is empty or only whitespace yields no rows and
\* no request, in extract_questions and in process_drilldown_row.
C7_NoRequestForBlankText ==
    /\ (ret.fn = "extract_questions" /\ strip(call.raw_text) = <<>>) =>
          (ret.value.questions = <<>> /\ ret.value.trace = <<>>)
    /\ (ret.fn = "process_drilldown_row" /\ BlankCells(call.row_data)) =>
          (ret.value.rows = <<>> /\ ret.value.trace = <<>>)

\* C10 (as amended): with c the stripped name, a c that contains " - " maps
\* to the stripped parts before and after its first " - "; a c without
\* " - " that contains "_" maps to the stripped parts around its first "_";
\* a c with neither maps to (c, "N/A").
SplitsAtFirst(c, sep, value) ==
    \E i \in 1..(Len(c) - Len(sep) + 1) :
        /\ SubSeq(c, i, i + Len(sep) - 1) = sep
        /\ \A j \in 1..(i - 1) : SubSeq(c, j, j + Len(sep) - 1) # sep
        /\ value = <<strip(SubSeq(c, 1, i - 1)),
                     strip(SubSeq(c, i + Len(sep), Len(c)))>>

HasSeparator(c, sep) ==
    \E i \in 1..(Len(c) - Len(sep) + 1) : SubSeq(c, i, i + Len(sep) - 1) = sep

C10_ParseFolderName ==
    ret.fn = "parse_folder_name" =>
        LET c == strip(call.folder_name)
        IN  IF HasSeparator(c, Dash)
            THEN SplitsAtFirst(c, Dash, ret.value)
            ELSE IF HasSeparator(c, Underscore)
            THEN SplitsAtFirst(c, Underscore, ret.value)
            ELSE ret.value = <<c, NA>>

\* C10 (as claimed): a name that contains " - " maps to the stripped parts
\* before and after its first " - ", any other name to (stripped name, "N/A").
C10_DashOrNothing ==
    ret.fn = "parse_folder_name" =>
        IF HasSeparator(call.folder_name, Dash)
        THEN SplitsAtFirst(call.folder_name, Dash, ret.value)
        ELSE ret.value = <<strip(call.folder_name), NA>>

\* C10 witness: a parsed name with " - " in it twice.
C10_Witness ==
    /\ ret.fn = "parse_folder_name"
    /\ Cardinality(Occurrences(strip(call.folder_name), Dash)) >= 2
    /\ ret.value = <<<<"a">>, <<"-", " ", "a">>>>

(***************************************************************************)
(* Credential selection                                                    *)
(***************************************************************************)

\* the submission loop has returned the credentials of its units
SubmitReturned == ret # NoCall /\ ret.fn = "submit"

\* the zip flow has picked the credentials of its units
ZipReturned == ret # NoCall /\ ret.fn = "get_api_key"

\* how many of the units in keys were given credential k
UnitsUsing(keys, k) == Cardinality({u \in DOMAIN keys : keys[u] = k})

\* the credential after k in the rotation over api_keys
NextKey(api_keys, k) ==
    LET j == CHOOSE x \in DOMAIN api_keys : api_keys[x] = k
    IN  api_keys[(j % Len(api_keys)) + 1]

\* the dispatcher's round-robin: unit i has credential i mod K, K units in a
\* row have K different credentials, two credentials differ by at most one
\* unit
DispatcherRoundRobin ==
    SubmitReturned =>
        LET keys == ret.value
            K == Len(call.api_keys)
        IN  /\ Len(keys) = call.n
            /\ \A u \in 1..call.n : keys[u] = call.api_keys[((u - 1) % K) + 1]
            /\ \A u \in 1..(call.n - K + 1) :
                   Cardinality({keys[v] : v \in u..(u + K - 1)}) = K
            /\ \A k1, k2 \in 1..K :
                   UnitsUsing(keys, k1) - UnitsUsing(keys, k2) \in {-1, 0, 1}

\* C11 (as stated): the dispatcher gives unit i credential i mod K, so K units
\* in a row use K different credentials and the loads of two credentials
\* differ by at most one; and the zip flow moves on to the next credential for
\* each successive unit.
C11_RotatesPerUnit ==
    /\ DispatcherRoundRobin
    /\ ZipReturned /\ call.api_keys # <<>> =>
           \A u \in 1..(Len(ret.value) - 1) :
               ret.value[u + 1] = NextKey(call.api_keys, ret.value[u])

\* C11 (amended): the dispatcher part as stated; the zip flow picks the
\* credential by the clock, keys[second mod K], so two units asking in the
\* same second share a credential, and a unit asking one second after the
\* previous one has the next credential; with no credential it is the empty
\* one.
C11_RoundRobinOrClock ==
    /\ DispatcherRoundRobin
    /\ ZipReturned =>
           LET keys == ret.value
               K == Len(call.api_keys)
               clock == call.clock
           IN  /\ Len(keys) = Len(clock)
               /\ \A u \in 1..Len(clock) :
                      keys[u] = IF K = 0 THEN 0
                                ELSE call.api_keys[(clock[u] % K) + 1]
               /\ \A u \in 1..(Len(clock) - 1) :
                      /\ clock[u + 1] = clock[u] => keys[u + 1] = keys[u]
                      /\ K > 0 /\ clock[u + 1] = clock[u] + 1 =>
                             keys[u + 1] = NextKey(call.api_keys, keys[u])

\* C11 witness: with three credentials, two successive units of the zip flow
\* ask in the same second and get the same credential.
C11_Witness ==
    /\ ZipReturned
    /\ Len(call.api_keys) = 3
    /\ Len(call.clock) >= 2
    /\ call.clock[1] = call.clock[2]
    /\ ret.value[1] = ret.value[2]

\* a dispatcher run with more units than credentials
C11_DispatcherWitness ==
    /\ SubmitReturned
    /\ Len(call.api_keys) = 2
    /\ call.n = 5
    /\ ret.value = <<1, 2, 1, 2, 1>>

(***************************************************************************)
(* The aggregate is made of whole units                                    *)
(***************************************************************************)

\* the orders in which the units of S can have been yielded
Orderings(S) ==
    {o \in [1..Cardinality(S) -> S] :
        \A i, j \in 1..Cardinality(S) : i # j => o[i] # o[j]}

\* the row lists of the first n units of order, one after the other
RECURSIVE RowsInOrder(_, _)
RowsInOrder(order, n) ==
    IF n = 0 THEN <<>>
    ELSE RowsInOrder(order, n - 1) \o fresult[order[n]].rows

\* the rows a future holds are those of its unit, in the order of the items
\* the hosted model returned
InModelOrder(u) ==
    \A j \in 1..Len(fresult[u].rows) :
        fresult[u].rows[j] = [meta |-> rows_to_process[u].meta, item |-> j]

\* a step of the collector loop on the future of unit u: its whole row list
\* goes to the end of all_results and it is counted
CollectsWhole(u) ==
    /\ pc = "collect"
    /\ fstate[u] = "finished"
    /\ u \notin yielded
    /\ yielded' = yielded \cup {u}
    /\ all_results' = all_results \o fresult[u].rows
    /\ completed_count' = completed_count + 1
    /\ fresult' = fresult

\* C12: all_results and completed_count change only in a step of the collector
\* loop, which appends the whole row list of one newly yielded unit, in the
\* order the model returned it, and counts it; so all_results always is the
\* row lists of the units counted so far, one after the other in some order
\* of these units, and the rows of two units are never interleaved.
C12_WholeUnitsInOrder ==
    /\ [][all_results' # all_results \/ completed_count' # completed_count
             \/ yielded' # yielded
              => \E u \in Units : CollectsWhole(u)]_vars
    /\ [](/\ completed_count = Cardinality(yielded)
          /\ \A u \in Finished : InModelOrder(u)
          /\ \E order \in Orderings(yielded) :
                 all_results = RowsInOrder(order, Len(order)))

\* C12 witness: the collector has counted two units, one of two rows and one
\* of one row, the later submitted one first, while another unit is still
\* running; the aggregate is the two row lists one after the other.
C12_Witness ==
    /\ pc = "collect"
    /\ total >= 3
    /\ yielded = {2, 3}
    /\ completed_count = 2
    /\ fstate[1] = "running"
    /\ Len(fresult[2].rows) = 1
    /\ Len(fresult[3].rows) = 2
    /\ all_results = fresult[3].rows \o fresult[2].rows
    /\ all_results # fresult[2].rows \o fresult[3].rows

=============================================================================
